---- MODULE Spec2Model ----
(***************************************************************************)
(* Model of autometrics/src/alerts.rs: the generation of Prometheus        *)
(* recording and alerting rules from the alert definitions collected in    *)
(* the METRICS distributed slice.                                          *)
(*                                                                         *)
(* A Rust String is modelled as a Text: the non-empty sequence of its      *)
(* lines, each line a string, the last one being the part after the final  *)
(* line feed ("" when the String ends with a line feed).  "a\nb\n" is      *)
(* <<"a", "b", "">> and "" is <<"">>.  Lines are real strings, built by    *)
(* concatenation exactly as format! builds them.                           *)
(***************************************************************************)
EXTENDS Naturals, Sequences, FiniteSets, TLC

VARIABLES METRICS, output, calls

vars == <<METRICS, output, calls>>

(***************************************************************************)
(* Bounds of the model and the values the alert definitions are drawn from.*)
(***************************************************************************)
MaxAlerts == 2
MaxCalls == 2

\* The instrumented functions: <<function, module>>.
Sites == {<<"checkout", "orders">>, <<"refund", "billing">>}
SuccessRates == {"0.995"}
LatencyPairs == {<<"0.25", "0.99">>}

(***************************************************************************)
(* Option<T>: None is the empty sequence, Some(x) the one-element one.     *)
(***************************************************************************)
None == <<>>
Some(x) == <<x>>
IsSome(opt) == Len(opt) = 1
Unwrap(opt) == opt[1]

(***************************************************************************)
(* String building.                                                        *)
(***************************************************************************)
Cat(a, b) == SubSeq(a, 1, Len(a) - 1) \o <<a[Len(a)] \o b[1]>> \o Tail(b)

RECURSIVE CatAll(_)
CatAll(texts) ==
    IF texts = <<>> THEN <<"">> ELSE Cat(Head(texts), CatAll(Tail(texts)))

RECURSIVE Join(_, _)
Join(strings, sep) ==
    IF strings = <<>> THEN <<"">>
    ELSE IF Len(strings) = 1 THEN strings[1]
    ELSE CatAll(<<strings[1], sep, Join(Tail(strings), sep)>>)

(***************************************************************************)
(* struct Alert and the objectives                                         *)
(***************************************************************************)
Alert ==
    {[function |-> site[1], module |-> site[2], success_rate |-> r,
      latency |-> l] :
        site \in Sites,
        r \in {None} \cup {Some(x) : x \in SuccessRates},
        l \in {None} \cup {Some(x) : x \in LatencyPairs}}

SuccessRateObjective(f, m, r) ==
    [kind |-> "SuccessRateObjective", function |-> f, module |-> m,
     success_rate |-> r]

LatencyObjective(f, m, threshold, objective) ==
    [kind |-> "LatencyObjective", function |-> f, module |-> m,
     latency_objective |-> objective, latency_threshold |-> threshold]

\* A variant that pushes the latency objective first.
to_objectives_LatencyFirst(alert) ==
    (IF IsSome(alert.latency)
     THEN <<LatencyObjective(alert.function, alert.module,
                             Unwrap(alert.latency)[1],
                             Unwrap(alert.latency)[2])>>
     ELSE <<>>)
    \o (IF IsSome(alert.success_rate)
        THEN <<SuccessRateObjective(alert.function, alert.module,
                                    Unwrap(alert.success_rate))>>
        ELSE <<>>)

to_objectives(alert) ==
    LET pushed1 == IF IsSome(alert.success_rate)
                   THEN <<SuccessRateObjective(alert.function, alert.module,
                                               Unwrap(alert.success_rate))>>
                   ELSE <<>>
        pushed2 == IF IsSome(alert.latency)
                   THEN Append(pushed1,
                               LatencyObjective(alert.function, alert.module,
                                                Unwrap(alert.latency)[1],
                                                Unwrap(alert.latency)[2]))
                   ELSE pushed1
    IN  pushed2

(***************************************************************************)
(* trait Objective: the methods each implementation provides               *)
(***************************************************************************)
slo_type(o) ==
    IF o.kind = "SuccessRateObjective" THEN "success-rate" ELSE "latency"

function(o) == o.function

module(o) == o.module

\* A variant that takes the threshold of a latency objective as its target.
success_rate_Threshold(o) ==
    IF o.kind = "SuccessRateObjective" THEN o.success_rate
    ELSE o.latency_threshold

success_rate(o) ==
    IF o.kind = "SuccessRateObjective" THEN o.success_rate
    ELSE o.latency_objective

SuccessRate_error_query(o, window) ==
    "sum(rate(function_calls_count{function=\"" \o function(o)
        \o "\",module=\"" \o module(o) \o "\",result=\"error\"}[" \o window
        \o "]))"

SuccessRate_total_query(o, window) ==
    "sum(rate(function_calls_count{function=\"" \o function(o)
        \o "\",module=\"" \o module(o) \o "\"}[" \o window \o "]))"

\* A variant that takes the latency target as the bucket.
Latency_error_query_LeIsObjective(o, window) ==
    "(sum(rate(function_calls_duration_bucket{function=\"" \o function(o)
        \o "\",module=\"" \o module(o) \o "\"}[" \o window \o "])) "
        \o "- sum(rate(function_calls_duration_bucket{le=\""
        \o o.latency_objective \o "\",function=\"" \o function(o)
        \o "\",module=\"" \o module(o) \o "\"}[" \o window \o "])))"

Latency_error_query(o, window) ==
    "(sum(rate(function_calls_duration_bucket{function=\"" \o function(o)
        \o "\",module=\"" \o module(o) \o "\"}[" \o window \o "])) "
        \o "- sum(rate(function_calls_duration_bucket{le=\""
        \o o.latency_threshold \o "\",function=\"" \o function(o)
        \o "\",module=\"" \o module(o) \o "\"}[" \o window \o "])))"

Latency_total_query(o, window) ==
    "sum(rate(function_calls_duration_bucket{function=\"" \o function(o)
        \o "\",module=\"" \o module(o) \o "\"}[" \o window \o "]))"

error_query(o, window) ==
    IF o.kind = "SuccessRateObjective" THEN SuccessRate_error_query(o, window)
    ELSE Latency_error_query(o, window)

total_query(o, window) ==
    IF o.kind = "SuccessRateObjective" THEN SuccessRate_total_query(o, window)
    ELSE Latency_total_query(o, window)

(***************************************************************************)
(* trait Objective: the provided methods                                   *)
(***************************************************************************)
\* A variant that puts the function first.
id_FunctionFirst(o) == function(o) \o "-" \o module(o)

id(o) == module(o) \o "-" \o function(o)

\* A variant that leaves the objective matcher out.
filter_labels_NoObjective(o) ==
    "{function=\"" \o function(o) \o "\",module=\"" \o module(o) \o "\"}"

filter_labels(o) ==
    "{function=\"" \o function(o) \o "\",module=\"" \o module(o)
        \o "\",objective=\"" \o slo_type(o) \o "\"}"

recording_labels(o) ==
    <<"labels:",
      "      objective: " \o slo_type(o),
      "      function: " \o function(o),
      "      module: " \o module(o)>>

Windows == <<"5m", "30m", "1h", "2h", "6h", "1d", "3d">>

\* A variant whose total is always taken over 5m.
WindowRule_TotalOver5m(o, window) ==
    CatAll(<< <<"  - record: slo:sli_error:ratio_rate" \o window,
                "    expr: " \o error_query(o, window) \o " / "
                    \o total_query(o, "5m"),
                "    ">>,
              recording_labels(o),
              <<"",
                "      window: " \o window,
                "">> >>)

WindowRule(o, window) ==
    CatAll(<< <<"  - record: slo:sli_error:ratio_rate" \o window,
                "    expr: " \o error_query(o, window) \o " / "
                    \o total_query(o, window),
                "    ">>,
              recording_labels(o),
              <<"",
                "      window: " \o window,
                "">> >>)

RECURSIVE PushWindowRules(_, _, _)
PushWindowRules(rules, o, k) ==
    IF k > Len(Windows) THEN rules
    ELSE PushWindowRules(Cat(rules, WindowRule(o, Windows[k])), o, k + 1)

error_ratio_recording_rules(o) ==
    LET rules0 == <<"- name: autometrics-slo-sli-recordings-" \o id(o) \o "-"
                        \o slo_type(o),
                    "  rules:",
                    "">>
        rules7 == PushWindowRules(rules0, o, 1)
    IN  Cat(rules7,
            CatAll(<< <<"  - record: slo:sli_error:ratio_rate30d",
                        "    expr: |",
                        "      sum_over_time(slo:sli_error:ratio_rate5m"
                            \o filter_labels(o) \o "[30d])",
                        "      / ignoring(window)",
                        "      count_over_time(slo:sli_error:ratio_rate5m"
                            \o filter_labels(o) \o "[30d])",
                        "    ">>,
                      recording_labels(o),
                      <<"",
                        "      window: 30d",
                        "">> >>))

meta_recording_rules(o) ==
    CatAll(<< <<"- name: autometrics-slo-meta-recordings-" \o id(o) \o "-"
                    \o slo_type(o),
                "  rules:",
                "  - record: slo:objective:ratio",
                "    expr: vector(" \o success_rate(o) \o ")",
                "    ">>,
              recording_labels(o),
              <<"",
                "  - record: slo:error_budget:ratio",
                "    expr: vector(1 - " \o success_rate(o) \o ")",
                "    ">>,
              recording_labels(o),
              <<"",
                "  - record: slo:time_period:days",
                "    expr: vector(30)",
                "    ">>,
              recording_labels(o),
              <<"",
                "  - record: slo:current_burn_rate:ratio",
                "    expr: slo:sli_error:ratio_rate5m" \o filter_labels(o)
                    \o " / on(function, module, objective) group_left "
                    \o "slo:error_budget:ratio" \o filter_labels(o),
                "    ">>,
              recording_labels(o),
              <<"",
                "  - record: slo:period_burn_rate:ratio",
                "    expr: slo:sli_error:ratio_rate30d" \o filter_labels(o)
                    \o " / on(function, module, objective) group_left "
                    \o "slo:error_budget:ratio" \o filter_labels(o),
                "    ">>,
              recording_labels(o),
              <<"",
                "  - record: slo:period_error_budget_remaining:ratio",
                "    expr: 1 - slo:period_burn_rate:ratio" \o filter_labels(o),
                "    ">>,
              recording_labels(o),
              <<"", "">> >>)

\* A variant whose last ticket branch joins its windows with or.
alert_rules_TicketOr(o) ==
    LET error_rate == "(1 - " \o success_rate(o) \o ")"
        labels == filter_labels(o)
    IN  <<"- name: autometrics-slo-alerts-" \o id(o) \o "-" \o slo_type(o),
          "  rules:",
          "  - alert: HighErrorRate-" \o id(o) \o "-" \o slo_type(o),
          "    expr: |",
          "      (",
          "        max(slo:sli_error:ratio_rate5m" \o labels \o " > (14.4 * "
              \o error_rate \o "))",
          "        and",
          "        max(slo:sli_error:ratio_rate1h" \o labels \o " > (14.4 * "
              \o error_rate \o "))",
          "      )",
          "      or",
          "      (",
          "        max(slo:sli_error:ratio_rate30m" \o labels \o " > (6 * "
              \o error_rate \o "))",
          "        and",
          "        max(slo:sli_error:ratio_rate6h" \o labels \o " > (6 * "
              \o error_rate \o "))",
          "      )",
          "    labels:",
          "      severity: page",
          "    annotations:",
          "      summary: High error rate for function '" \o function(o)
              \o "' in module '" \o module(o) \o "'",
          "      title: (page) '" \o function(o) \o "' in module '"
              \o module(o) \o "' SLO error budget burn rate is too fast.",
          "  - alert: HighErrorRate-" \o id(o) \o "-" \o slo_type(o),
          "    expr: |",
          "      (",
          "        max(slo:sli_error:ratio_rate2h" \o labels \o " > (3 * "
              \o error_rate \o "))",
          "        and",
          "        max(slo:sli_error:ratio_rate1d" \o labels \o " > (3 * "
              \o error_rate \o "))",
          "      )",
          "      or",
          "      (",
          "        max(slo:sli_error:ratio_rate6h" \o labels \o " > (1 * "
              \o error_rate \o "))",
          "        or",
          "        max(slo:sli_error:ratio_rate3d" \o labels \o " > (1 * "
              \o error_rate \o "))",
          "      )",
          "    labels:",
          "      severity: ticket",
          "    annotations:",
          "      summary: High error rate for function '" \o function(o)
              \o "' in module '" \o module(o) \o "'",
          "      title: (ticket) '" \o function(o) \o "' in module '"
              \o module(o) \o "' SLO error budget burn rate is too fast.",
          "">>

alert_rules(o) ==
    LET error_rate == "(1 - " \o success_rate(o) \o ")"
        labels == filter_labels(o)
    IN  <<"- name: autometrics-slo-alerts-" \o id(o) \o "-" \o slo_type(o),
          "  rules:",
          "  - alert: HighErrorRate-" \o id(o) \o "-" \o slo_type(o),
          "    expr: |",
          "      (",
          "        max(slo:sli_error:ratio_rate5m" \o labels \o " > (14.4 * "
              \o error_rate \o "))",
          "        and",
          "        max(slo:sli_error:ratio_rate1h" \o labels \o " > (14.4 * "
              \o error_rate \o "))",
          "      )",
          "      or",
          "      (",
          "        max(slo:sli_error:ratio_rate30m" \o labels \o " > (6 * "
              \o error_rate \o "))",
          "        and",
          "        max(slo:sli_error:ratio_rate6h" \o labels \o " > (6 * "
              \o error_rate \o "))",
          "      )",
          "    labels:",
          "      severity: page",
          "    annotations:",
          "      summary: High error rate for function '" \o function(o)
              \o "' in module '" \o module(o) \o "'",
          "      title: (page) '" \o function(o) \o "' in module '"
              \o module(o) \o "' SLO error budget burn rate is too fast.",
          "  - alert: HighErrorRate-" \o id(o) \o "-" \o slo_type(o),
          "    expr: |",
          "      (",
          "        max(slo:sli_error:ratio_rate2h" \o labels \o " > (3 * "
              \o error_rate \o "))",
          "        and",
          "        max(slo:sli_error:ratio_rate1d" \o labels \o " > (3 * "
              \o error_rate \o "))",
          "      )",
          "      or",
          "      (",
          "        max(slo:sli_error:ratio_rate6h" \o labels \o " > (1 * "
              \o error_rate \o "))",
          "        and",
          "        max(slo:sli_error:ratio_rate3d" \o labels \o " > (1 * "
              \o error_rate \o "))",
          "      )",
          "    labels:",
          "      severity: ticket",
          "    annotations:",
          "      summary: High error rate for function '" \o function(o)
              \o "' in module '" \o module(o) \o "'",
          "      title: (ticket) '" \o function(o) \o "' in module '"
              \o module(o) \o "' SLO error budget burn rate is too fast.",
          "">>

(***************************************************************************)
(* generate_alerts                                                         *)
(***************************************************************************)
\* A variant that emits the meta recordings before the sli recordings.
ObjectiveGroups_MetaFirst(o) ==
    <<meta_recording_rules(o), error_ratio_recording_rules(o), alert_rules(o)>>

ObjectiveGroups(o) ==
    <<error_ratio_recording_rules(o), meta_recording_rules(o), alert_rules(o)>>

RECURSIVE ObjectivesGroups(_)
ObjectivesGroups(objectives) ==
    IF objectives = <<>> THEN <<>>
    ELSE ObjectiveGroups(Head(objectives))
             \o ObjectivesGroups(Tail(objectives))

\* A variant that emits an empty string for an alert definition without
\* objectives.
AlertGroups_EmptyStringWhenNone(alert) ==
    IF to_objectives(alert) = <<>> THEN << <<"">> >>
    ELSE ObjectivesGroups(to_objectives(alert))

AlertGroups(alert) == ObjectivesGroups(to_objectives(alert))

RECURSIVE CollectGroups(_)
CollectGroups(metrics) ==
    IF metrics = <<>> THEN <<>>
    ELSE AlertGroups(Head(metrics)) \o CollectGroups(Tail(metrics))

generate_alerts(metrics) ==
    LET groups == Join(CollectGroups(metrics), <<"", "">>)
    IN  Cat(<<"---",
              "# Prometheus recording and alerting rules generated by autometrics-rs",
              "",
              "groups:",
              "">>,
            groups)

(***************************************************************************)
(* The state machine: METRICS is filled at link time and never changes;    *)
(* the program calls generate_alerts any number of times.  output is the   *)
(* String the last call returned; calls counts the calls made.             *)
(***************************************************************************)
RECURSIVE SeqsUpTo(_, _)
SeqsUpTo(S, n) ==
    IF n = 0 THEN {<<>>}
    ELSE LET shorter == SeqsUpTo(S, n - 1)
         IN  shorter \cup {Append(s, x) : s \in shorter, x \in S}

Init ==
    /\ METRICS \in SeqsUpTo(Alert, MaxAlerts)
    /\ output = None
    /\ calls = 0

\* A variant that appends to the String of the previous call.
GenerateAlerts_Accumulating ==
    /\ calls < MaxCalls
    /\ output' = Some(IF IsSome(output)
                      THEN Cat(Unwrap(output), generate_alerts(METRICS))
                      ELSE generate_alerts(METRICS))
    /\ calls' = calls + 1
    /\ UNCHANGED METRICS

GenerateAlerts ==
    /\ calls < MaxCalls
    /\ output' = Some(generate_alerts(METRICS))
    /\ calls' = calls + 1
    /\ UNCHANGED METRICS

Next == GenerateAlerts

Spec == Init /\ [][Next]_vars

(***************************************************************************)
(* Reading a generated document back.  The properties below are stated on  *)
(* what a consumer of the rule file sees: the header, the rule groups, the  *)
(* rules of a group, and each rule's name, expression, labels and          *)
(* annotations.                                                            *)
(***************************************************************************)
Called == calls > 0

Out == Unwrap(output)

StartsWith(s, p) == Len(s) >= Len(p) /\ SubSeq(s, 1, Len(p)) = p

StripPrefix(s, p) == SubSeq(s, Len(p) + 1, Len(s))

\* The k-th smallest element of a finite set of numbers.
Nth(S, k) == CHOOSE i \in S : Cardinality({j \in S : j < i}) = k - 1

\* The pieces of lines that start at the indices in starts: piece k runs
\* from the k-th start to just before the next one (the last, to last).
Pieces(lines, starts, last) ==
    [k \in 1..Cardinality(starts) |->
        SubSeq(lines, Nth(starts, k),
               IF k = Cardinality(starts) THEN last
               ELSE Nth(starts, k + 1) - 1)]

HeaderLines == <<"---",
                 "# Prometheus recording and alerting rules generated by autometrics-rs",
                 "",
                 "groups:">>

\* The raw rule groups of a document: each from its "- name: " line to just
\* before the next group's.
RawGroups(text) ==
    Pieces(text, {i \in 1..Len(text) : StartsWith(text[i], "- name: ")},
           Len(text))

IsRuleStart(line) ==
    StartsWith(line, "  - record: ") \/ StartsWith(line, "  - alert: ")

IndexOf(lines, line, default) ==
    IF \E i \in 1..Len(lines) : lines[i] = line
    THEN CHOOSE i \in 1..Len(lines) :
             lines[i] = line /\ \A j \in 1..(i - 1) : lines[j] # line
    ELSE default

StripAll(lines, p) == [i \in 1..Len(lines) |-> StripPrefix(lines[i], p)]

\* One rule, read from its lines.
ReadRule(lines) ==
    LET iL == IndexOf(lines, "    labels:", Len(lines) + 1)
        iA == IndexOf(lines, "    annotations:", Len(lines) + 1)
    IN  [kind |-> IF StartsWith(lines[1], "  - record: ") THEN "record"
                  ELSE "alert",
         name |-> IF StartsWith(lines[1], "  - record: ")
                  THEN StripPrefix(lines[1], "  - record: ")
                  ELSE StripPrefix(lines[1], "  - alert: "),
         expr |-> SubSeq(lines, 2, iL - 1),
         labels |-> StripAll(SubSeq(lines, iL + 1, iA - 1), "      "),
         annotations |-> StripAll(SubSeq(lines, iA + 1, Len(lines)), "      ")]

\* One group, read from its raw lines: a well-formed group is its name line,
\* "  rules:", its rules, and the empty line that ends or separates it.
ReadGroup(raw) ==
    LET starts == {i \in 1..Len(raw) : IsRuleStart(raw[i])}
        rules == Pieces(raw, starts, Len(raw) - 1)
    IN  [name |-> StripPrefix(raw[1], "- name: "),
         wellFormed |-> /\ Len(raw) >= 4
                        /\ raw[2] = "  rules:"
                        /\ 3 \in starts
                        /\ raw[Len(raw)] = ""
                        /\ \A i \in 1..(Len(raw) - 1) : raw[i] # "",
         rules |-> [k \in 1..Len(rules) |-> ReadRule(rules[k])]]

Groups == LET raw == RawGroups(Out) IN [k \in 1..Len(raw) |-> ReadGroup(raw[k])]

(***************************************************************************)
(* What the alert definitions ask for, read from METRICS alone.            *)
(***************************************************************************)
NSet(alert) ==
    (IF IsSome(alert.success_rate) THEN 1 ELSE 0)
        + (IF IsSome(alert.latency) THEN 1 ELSE 0)

\* The objectives asked for, in order: the alert definition and the kind.
RECURSIVE Asked(_)
Asked(metrics) ==
    IF metrics = <<>> THEN <<>>
    ELSE LET a == Head(metrics)
         IN  (IF IsSome(a.success_rate)
              THEN <<[alert |-> a, slo |-> "success-rate"]>> ELSE <<>>)
             \o (IF IsSome(a.latency)
                 THEN <<[alert |-> a, slo |-> "latency"]>> ELSE <<>>)
             \o Asked(Tail(metrics))

AskedId(q) == q.alert.module \o "-" \o q.alert.function \o "-" \o q.slo

\* The target of an objective: the success rate asked for, or the second
\* element of the latency pair.
AskedTarget(q) ==
    IF q.slo = "success-rate" THEN Unwrap(q.alert.success_rate)
    ELSE Unwrap(q.alert.latency)[2]

AskedSelector(q) ==
    "{function=\"" \o q.alert.function \o "\",module=\"" \o q.alert.module
        \o "\",objective=\"" \o q.slo \o "\"}"

AskedLabels(q) ==
    <<"objective: " \o q.slo, "function: " \o q.alert.function,
      "module: " \o q.alert.module>>

GroupKinds == <<"autometrics-slo-sli-recordings-",
                "autometrics-slo-meta-recordings-",
                "autometrics-slo-alerts-">>

KindsOf(objectives) == [k \in 1..Len(objectives) |-> objectives[k].kind]

NamedFor(groups, f, m, slo) ==
    {k \in 1..Len(groups) :
        \E j \in 1..3 :
            groups[k].name = GroupKinds[j] \o m \o "-" \o f \o "-" \o slo}

AskedFor(f, m, slo) ==
    {i \in 1..Len(METRICS) :
        /\ METRICS[i].function = f
        /\ METRICS[i].module = m
        /\ IF slo = "success-rate" THEN IsSome(METRICS[i].success_rate)
           ELSE IsSome(METRICS[i].latency)}

(***************************************************************************)
(* C1: Alert::to_objectives depends only on which optional fields are set: *)
(* success_rate alone gives one success-rate objective, both give          *)
(* [success-rate, latency], latency alone gives one latency objective,     *)
(* neither gives none; every objective carries the function and module of  *)
(* its alert definition.  Hence in a generated document the groups of a    *)
(* function's success-rate (latency) objective number three per alert      *)
(* definition of that function that sets success_rate (latency).           *)
(***************************************************************************)
C1_ToObjectives ==
    /\ \A i \in 1..Len(METRICS) :
          LET a == METRICS[i]
              objectives == to_objectives(a)
          IN  /\ KindsOf(objectives) =
                    (IF IsSome(a.success_rate)
                     THEN <<"SuccessRateObjective">> ELSE <<>>)
                    \o (IF IsSome(a.latency)
                        THEN <<"LatencyObjective">> ELSE <<>>)
              /\ \A k \in 1..Len(objectives) :
                    /\ function(objectives[k]) = a.function
                    /\ module(objectives[k]) = a.module
    /\ Called =>
          LET groups == Groups
          IN  \A site \in Sites : \A slo \in {"success-rate", "latency"} :
                  Cardinality(NamedFor(groups, site[1], site[2], slo))
                      = 3 * Cardinality(AskedFor(site[1], site[2], slo))

C1_Witness ==
    /\ Called
    /\ Len(METRICS) = 2
    /\ IsSome(METRICS[1].success_rate) /\ ~IsSome(METRICS[1].latency)
    /\ IsSome(METRICS[2].success_rate) /\ IsSome(METRICS[2].latency)
    /\ Len(Groups) = 9

(***************************************************************************)
(* C2: the rule groups of a generated document follow the alert            *)
(* definitions in input order; within a definition success-rate precedes   *)
(* latency; within an objective the groups are sli-recordings,             *)
(* meta-recordings, alerts.  There are exactly three groups per objective  *)
(* asked for: nothing is reordered, dropped or deduplicated.               *)
(***************************************************************************)
C2_GroupOrder ==
    Called =>
        LET groups == Groups
            asked == Asked(METRICS)
        IN  /\ Len(groups) = 3 * Len(asked)
            /\ \A k \in 1..Len(groups) :
                  /\ groups[k].wellFormed
                  /\ groups[k].name =
                        GroupKinds[((k - 1) % 3) + 1]
                            \o AskedId(asked[((k - 1) \div 3) + 1])

C2_Witness ==
    /\ Called
    /\ Len(METRICS) = 2
    /\ METRICS[1] = METRICS[2]
    /\ NSet(METRICS[1]) = 2
    /\ Len(Groups) = 12
    /\ Groups[4].name = "autometrics-slo-sli-recordings-orders-checkout-latency"
    /\ Groups[7] = Groups[1]

HasObjective(alert) == NSet(alert) > 0

(***************************************************************************)
(* C3: every call of generate_alerts returns a document: the fixed header  *)
(* (---, the generator comment, an empty line, groups:) followed by the    *)
(* groups.  With no alert definition, or with none that sets a field, the  *)
(* document is the header alone; an alert definition with both fields      *)
(* unset contributes nothing: the document is the one generated without    *)
(* it.                                                                     *)
(***************************************************************************)
C3_HeaderAlways ==
    Called =>
        /\ IsSome(output)
        /\ Len(Out) >= 5
        /\ SubSeq(Out, 1, 4) = HeaderLines
        /\ Asked(METRICS) = <<>> => Out = HeaderLines \o <<"">>
        /\ Asked(METRICS) # <<>> => StartsWith(Out[5], "- name: ")
        /\ Out = generate_alerts(SelectSeq(METRICS, HasObjective))

C3_Witness ==
    /\ Called
    /\ Len(METRICS) = 2
    /\ NSet(METRICS[1]) = 0
    /\ NSet(METRICS[2]) = 2
    /\ Len(Groups) = 6

C3_WitnessEmpty ==
    /\ Called
    /\ METRICS = <<>>
    /\ Out = HeaderLines \o <<"">>

(***************************************************************************)
(* The objectives generate_alerts derives, in order, and the groups of the *)
(* k-th of them in a generated document.                                   *)
(***************************************************************************)
RECURSIVE Derived(_)
Derived(metrics) ==
    IF metrics = <<>> THEN <<>>
    ELSE to_objectives(Head(metrics)) \o Derived(Tail(metrics))

\* The document holds three groups for each objective asked for.
Aligned(groups, asked, objectives) ==
    /\ Len(groups) = 3 * Len(asked)
    /\ Len(objectives) = Len(asked)

SliGroup(groups, k) == groups[3 * (k - 1) + 1]
MetaGroup(groups, k) == groups[3 * (k - 1) + 2]
AlertsGroup(groups, k) == groups[3 * k]

RuleNames(group) == [j \in 1..Len(group.rules) |-> group.rules[j].name]

SliWindows == <<"5m", "30m", "1h", "2h", "6h", "1d", "3d">>

(***************************************************************************)
(* C4: the group autometrics-slo-sli-recordings-{id}-{slo_type} of every   *)
(* objective holds exactly 8 recording rules: slo:sli_error:ratio_rate{w}  *)
(* for w = 5m, 30m, 1h, 2h, 6h, 1d, 3d in this order, each with the        *)
(* expression error_query(w) / total_query(w) and the label window: w;     *)
(* then slo:sli_error:ratio_rate30d, the sum_over_time over the            *)
(* count_over_time of ratio_rate5m[30d] filtered by the objective's        *)
(* filter_labels, with the label window: 30d.  All 8 carry the objective's *)
(* recording labels.                                                       *)
(***************************************************************************)
C4_SliRecordings ==
    Called =>
        LET groups == Groups
            asked == Asked(METRICS)
            objectives == Derived(METRICS)
        IN  /\ Aligned(groups, asked, objectives)
            /\ \A k \in 1..Len(asked) :
                  LET g == SliGroup(groups, k)
                      o == objectives[k]
                      q == asked[k]
                  IN  /\ g.name = "autometrics-slo-sli-recordings-"
                                      \o AskedId(q)
                      /\ Len(g.rules) = 8
                      /\ \A j \in 1..7 :
                            LET r == g.rules[j]
                                w == SliWindows[j]
                            IN  /\ r.kind = "record"
                                /\ r.name = "slo:sli_error:ratio_rate" \o w
                                /\ r.expr = <<"    expr: "
                                                \o error_query(o, w) \o " / "
                                                \o total_query(o, w)>>
                                /\ r.labels =
                                      AskedLabels(q) \o <<"window: " \o w>>
                                /\ r.annotations = <<>>
                      /\ LET r == g.rules[8]
                             sel == AskedSelector(q)
                         IN  /\ r.kind = "record"
                             /\ r.name = "slo:sli_error:ratio_rate30d"
                             /\ r.expr =
                                   <<"    expr: |",
                                     "      sum_over_time(slo:sli_error:ratio_rate5m"
                                         \o sel \o "[30d])",
                                     "      / ignoring(window)",
                                     "      count_over_time(slo:sli_error:ratio_rate5m"
                                         \o sel \o "[30d])">>
                             /\ r.labels =
                                   AskedLabels(q) \o <<"window: 30d">>
                             /\ r.annotations = <<>>

C4_Witness ==
    /\ Called
    /\ Len(METRICS) = 1
    /\ NSet(METRICS[1]) = 2
    /\ Len(Groups) = 6
    /\ RuleNames(Groups[4]) =
          <<"slo:sli_error:ratio_rate5m", "slo:sli_error:ratio_rate30m",
            "slo:sli_error:ratio_rate1h", "slo:sli_error:ratio_rate2h",
            "slo:sli_error:ratio_rate6h", "slo:sli_error:ratio_rate1d",
            "slo:sli_error:ratio_rate3d", "slo:sli_error:ratio_rate30d">>

(***************************************************************************)
(* C5: the group autometrics-slo-meta-recordings-{id}-{slo_type} of every  *)
(* objective holds exactly six recording rules, in this order:             *)
(* slo:objective:ratio = vector(r), slo:error_budget:ratio = vector(1 - r),*)
(* slo:time_period:days = vector(30), slo:current_burn_rate:ratio =        *)
(* ratio_rate5m / error_budget:ratio, slo:period_burn_rate:ratio =         *)
(* ratio_rate30d / error_budget:ratio,                                     *)
(* slo:period_error_budget_remaining:ratio = 1 - period_burn_rate:ratio,   *)
(* where r is the success-rate target of a success-rate objective and the  *)
(* latency target expression (not the threshold) of a latency objective.   *)
(* All six carry the recording labels and no window label.                 *)
(***************************************************************************)
C5_MetaRecordings ==
    Called =>
        LET groups == Groups
            asked == Asked(METRICS)
            objectives == Derived(METRICS)
        IN  /\ Aligned(groups, asked, objectives)
            /\ \A k \in 1..Len(asked) :
                  LET g == MetaGroup(groups, k)
                      q == asked[k]
                      r == AskedTarget(q)
                      sel == AskedSelector(q)
                      join == " / on(function, module, objective) group_left "
                  IN  /\ success_rate(objectives[k]) = r
                      /\ g.name = "autometrics-slo-meta-recordings-"
                                      \o AskedId(q)
                      /\ RuleNames(g) =
                            <<"slo:objective:ratio",
                              "slo:error_budget:ratio",
                              "slo:time_period:days",
                              "slo:current_burn_rate:ratio",
                              "slo:period_burn_rate:ratio",
                              "slo:period_error_budget_remaining:ratio">>
                      /\ g.rules[1].expr = <<"    expr: vector(" \o r \o ")">>
                      /\ g.rules[2].expr =
                            <<"    expr: vector(1 - " \o r \o ")">>
                      /\ g.rules[3].expr = <<"    expr: vector(30)">>
                      /\ g.rules[4].expr =
                            <<"    expr: slo:sli_error:ratio_rate5m" \o sel
                                \o join \o "slo:error_budget:ratio" \o sel>>
                      /\ g.rules[5].expr =
                            <<"    expr: slo:sli_error:ratio_rate30d" \o sel
                                \o join \o "slo:error_budget:ratio" \o sel>>
                      /\ g.rules[6].expr =
                            <<"    expr: 1 - slo:period_burn_rate:ratio"
                                \o sel>>
                      /\ \A j \in 1..6 :
                            /\ g.rules[j].kind = "record"
                            /\ g.rules[j].labels = AskedLabels(q)
                            /\ \A i \in 1..Len(g.rules[j].labels) :
                                  ~StartsWith(g.rules[j].labels[i], "window:")
                            /\ g.rules[j].annotations = <<>>

C5_Witness ==
    /\ Called
    /\ Len(METRICS) = 1
    /\ METRICS[1].latency = Some(<<"0.25", "0.99">>)
    /\ METRICS[1].success_rate = None
    /\ Len(Groups) = 3
    /\ Len(Groups[2].rules) = 6
    /\ Groups[2].rules[1].expr = <<"    expr: vector(0.99)">>
    /\ Groups[2].rules[2].expr = <<"    expr: vector(1 - 0.99)">>

(***************************************************************************)
(* C6: the group autometrics-slo-alerts-{id}-{slo_type} of every objective *)
(* holds exactly two alert rules, both named HighErrorRate-{id}-{slo_type} *)
(* with id = {module}-{function}; the first has the label severity: page   *)
(* and a title prefixed (page), the second severity: ticket and a title    *)
(* prefixed (ticket).  severity is the only label of an alert rule, and    *)
(* the only thing besides the expression and the title that tells the two  *)
(* apart.                                                                  *)
(***************************************************************************)
C6_AlertPair ==
    Called =>
        LET groups == Groups
            asked == Asked(METRICS)
            objectives == Derived(METRICS)
        IN  /\ Aligned(groups, asked, objectives)
            /\ \A k \in 1..Len(asked) :
                  LET g == AlertsGroup(groups, k)
                      q == asked[k]
                      alertName == "HighErrorRate-" \o q.alert.module \o "-"
                                      \o q.alert.function \o "-" \o q.slo
                  IN  /\ g.name = "autometrics-slo-alerts-" \o AskedId(q)
                      /\ Len(g.rules) = 2
                      /\ \A j \in 1..2 :
                            /\ g.rules[j].kind = "alert"
                            /\ g.rules[j].name = alertName
                            /\ Len(g.rules[j].annotations) = 2
                            /\ StartsWith(g.rules[j].annotations[1],
                                          "summary: ")
                      /\ g.rules[1].labels = <<"severity: page">>
                      /\ g.rules[2].labels = <<"severity: ticket">>
                      /\ StartsWith(g.rules[1].annotations[2],
                                    "title: (page) ")
                      /\ StartsWith(g.rules[2].annotations[2],
                                    "title: (ticket) ")
                      /\ g.rules[1].name = g.rules[2].name
                      /\ g.rules[1].labels # g.rules[2].labels

C6_Witness ==
    /\ Called
    /\ METRICS = <<[function |-> "checkout", module |-> "orders",
                    success_rate |-> Some("0.995"), latency |-> None]>>
    /\ Len(Groups) = 3
    /\ RuleNames(Groups[3]) =
          <<"HighErrorRate-orders-checkout-success-rate",
            "HighErrorRate-orders-checkout-success-rate">>
    /\ Groups[3].rules[1].labels = <<"severity: page">>
    /\ Groups[3].rules[2].labels = <<"severity: ticket">>

(***************************************************************************)
(* Reading an alert condition: the expression block of an alert rule is a  *)
(* disjunction ("or" lines) of parenthesised conjunctions ("and" lines) of *)
(* comparisons max(slo:sli_error:ratio_rate{w}{selector} > (factor * e)).  *)
(***************************************************************************)
\* The segments of lines between the lines equal to sep.
Split(lines, sep) ==
    LET seps == {i \in 1..Len(lines) : lines[i] = sep}
        n == Cardinality(seps)
    IN  [k \in 1..(n + 1) |->
            SubSeq(lines,
                   IF k = 1 THEN 1 ELSE Nth(seps, k - 1) + 1,
                   IF k = n + 1 THEN Len(lines) ELSE Nth(seps, k) - 1)]

RatioWindows == {"5m", "30m", "1h", "2h", "6h", "1d", "3d", "30d"}
Factors == {"14.4", "6", "3", "1"}

ComparisonLine(w, factor, sel, e) ==
    "        max(slo:sli_error:ratio_rate" \o w \o sel \o " > (" \o factor
        \o " * " \o e \o "))"

\* The <<window, factor>> pairs a line compares, under the selector sel and
\* the error rate e: one pair for a comparison, none for any other line.
ReadComparison(line, sel, e) ==
    {c \in RatioWindows \X Factors :
        line = ComparisonLine(c[1], c[2], sel, e)}

\* A branch, read from its lines: the comparisons between "(" and ")".
BranchWellFormed(seg, sel, e) ==
    /\ Len(seg) >= 3
    /\ seg[1] = "      ("
    /\ seg[Len(seg)] = "      )"
    /\ LET parts == Split(SubSeq(seg, 2, Len(seg) - 1), "        and")
       IN  \A i \in 1..Len(parts) :
              /\ Len(parts[i]) = 1
              /\ Cardinality(ReadComparison(parts[i][1], sel, e)) = 1

ReadBranch(seg, sel, e) ==
    LET parts == Split(SubSeq(seg, 2, Len(seg) - 1), "        and")
    IN  [i \in 1..Len(parts) |->
            CHOOSE c \in ReadComparison(parts[i][1], sel, e) : TRUE]

ConditionWellFormed(rule, sel, e) ==
    /\ Len(rule.expr) >= 2
    /\ rule.expr[1] = "    expr: |"
    /\ LET branches == Split(Tail(rule.expr), "      or")
       IN  \A b \in 1..Len(branches) :
              BranchWellFormed(branches[b], sel, e)

ReadCondition(rule, sel, e) ==
    LET branches == Split(Tail(rule.expr), "      or")
    IN  [b \in 1..Len(branches) |-> ReadBranch(branches[b], sel, e)]

Comparisons(cond) ==
    {cond[b][i] : b \in 1..Len(cond), i \in 1..2}

\* Whether an alert fires when exactly the comparisons in exceeding hold.
Fires(cond, exceeding) ==
    \E b \in 1..Len(cond) : \A i \in 1..Len(cond[b]) : cond[b][i] \in exceeding

PageCondition ==
    << << <<"5m", "14.4">>, <<"1h", "14.4">> >>,
       << <<"30m", "6">>, <<"6h", "6">> >> >>

TicketCondition ==
    << << <<"2h", "3">>, <<"1d", "3">> >>,
       << <<"6h", "1">>, <<"3d", "1">> >> >>

DualWindow(cond) ==
    /\ \A b \in 1..Len(cond) :
          /\ Len(cond[b]) = 2
          /\ cond[b][1][2] = cond[b][2][2]
          /\ cond[b][1][1] # cond[b][2][1]
    /\ \A exceeding \in SUBSET Comparisons(cond) :
          /\ Fires(cond, exceeding) <=>
                \/ {cond[1][1], cond[1][2]} \subseteq exceeding
                \/ {cond[2][1], cond[2][2]} \subseteq exceeding
          /\ (\A b \in 1..Len(cond) :
                  ~({cond[b][1], cond[b][2]} \subseteq exceeding))
                => ~Fires(cond, exceeding)

(***************************************************************************)
(* C7: with errorRate = (1 - success_rate()), the page alert is            *)
(* (ratio_rate5m > 14.4*errorRate and ratio_rate1h > 14.4*errorRate) or    *)
(* (ratio_rate30m > 6*errorRate and ratio_rate6h > 6*errorRate), and the   *)
(* ticket alert is (ratio_rate2h > 3*errorRate and ratio_rate1d >          *)
(* 3*errorRate) or (ratio_rate6h > 1*errorRate and ratio_rate3d >          *)
(* 1*errorRate).  Both windows of a branch use the same factor, the same   *)
(* errorRate and the objective's filter_labels, so an alert does not fire  *)
(* when in each of its branches at most one of the two windows exceeds the *)
(* threshold.                                                              *)
(***************************************************************************)
C7_BurnRateConditions ==
    Called =>
        LET groups == Groups
            asked == Asked(METRICS)
            objectives == Derived(METRICS)
        IN  /\ Aligned(groups, asked, objectives)
            /\ \A k \in 1..Len(asked) :
                  LET g == AlertsGroup(groups, k)
                      sel == AskedSelector(asked[k])
                      e == "(1 - " \o AskedTarget(asked[k]) \o ")"
                  IN  /\ Len(g.rules) = 2
                      /\ e = "(1 - " \o success_rate(objectives[k]) \o ")"
                      /\ ConditionWellFormed(g.rules[1], sel, e)
                      /\ ConditionWellFormed(g.rules[2], sel, e)
                      /\ ReadCondition(g.rules[1], sel, e) = PageCondition
                      /\ ReadCondition(g.rules[2], sel, e) = TicketCondition
                      /\ DualWindow(ReadCondition(g.rules[1], sel, e))
                      /\ DualWindow(ReadCondition(g.rules[2], sel, e))

C7_Witness ==
    /\ Called
    /\ Len(METRICS) = 1
    /\ NSet(METRICS[1]) = 2
    /\ Len(Groups) = 6
    /\ ReadCondition(Groups[6].rules[1],
                     "{function=\"" \o METRICS[1].function \o "\",module=\""
                         \o METRICS[1].module \o "\",objective=\"latency\"}",
                     "(1 - 0.99)") = PageCondition
    /\ ~Fires(PageCondition, {<<"5m", "14.4">>, <<"30m", "6">>})
    /\ Fires(PageCondition, {<<"5m", "14.4">>, <<"1h", "14.4">>})

SiteMatchers(q) ==
    "function=\"" \o q.alert.function \o "\",module=\"" \o q.alert.module
        \o "\""

Rate(metric, matchers, w) ==
    "sum(rate(" \o metric \o "{" \o matchers \o "}[" \o w \o "]))"

ExpectedTotal(q, w) ==
    IF q.slo = "success-rate"
    THEN Rate("function_calls_count", SiteMatchers(q), w)
    ELSE Rate("function_calls_duration_bucket", SiteMatchers(q), w)

ExpectedError(q, w) ==
    IF q.slo = "success-rate"
    THEN Rate("function_calls_count",
              SiteMatchers(q) \o ",result=\"error\"", w)
    ELSE "(" \o ExpectedTotal(q, w) \o " - "
             \o Rate("function_calls_duration_bucket",
                     "le=\"" \o Unwrap(q.alert.latency)[1] \o "\","
                         \o SiteMatchers(q), w)
             \o ")"

OtherTargets == {"0.25", "0.9"}

(***************************************************************************)
(* C9: for every objective and window w, error_query(w) and total_query(w) *)
(* select the same function and module over the same range w.  For a       *)
(* success-rate objective the error query is the total query on            *)
(* function_calls_count with the one extra matcher result="error".  For a  *)
(* latency objective the total query is the rate of                        *)
(* function_calls_duration_bucket and the error query is that total minus  *)
(* the rate of the bucket whose le is the threshold (the first element of  *)
(* the latency pair); the latency target is used in neither.               *)
(***************************************************************************)
C9_Queries ==
    /\ LET asked == Asked(METRICS)
           objectives == Derived(METRICS)
       IN  /\ Len(objectives) = Len(asked)
           /\ \A k \in 1..Len(asked) : \A w \in RatioWindows :
                 LET o == objectives[k]
                 IN  /\ total_query(o, w) = ExpectedTotal(asked[k], w)
                     /\ error_query(o, w) = ExpectedError(asked[k], w)
                     /\ o.kind = "LatencyObjective" =>
                           \A t \in OtherTargets :
                              LET o2 == [o EXCEPT !.latency_objective = t]
                              IN  /\ error_query(o2, w) = error_query(o, w)
                                  /\ total_query(o2, w) = total_query(o, w)
    /\ Called =>
          LET groups == Groups
              asked == Asked(METRICS)
          IN  /\ Len(groups) = 3 * Len(asked)
              /\ \A k \in 1..Len(asked) :
                    /\ Len(SliGroup(groups, k).rules) = 8
                    /\ \A j \in 1..7 :
                          SliGroup(groups, k).rules[j].expr =
                              <<"    expr: "
                                  \o ExpectedError(asked[k], SliWindows[j])
                                  \o " / "
                                  \o ExpectedTotal(asked[k], SliWindows[j])>>

C9_Witness ==
    /\ Called
    /\ METRICS = <<[function |-> "checkout", module |-> "orders",
                    success_rate |-> Some("0.995"),
                    latency |-> Some(<<"0.25", "0.99">>)]>>
    /\ Len(Groups) = 6
    /\ Groups[1].rules[1].expr =
          <<"    expr: sum(rate(function_calls_count{function=\"checkout\",module=\"orders\",result=\"error\"}[5m])) / sum(rate(function_calls_count{function=\"checkout\",module=\"orders\"}[5m]))">>
    /\ Groups[4].rules[3].expr =
          <<"    expr: (sum(rate(function_calls_duration_bucket{function=\"checkout\",module=\"orders\"}[1h])) - sum(rate(function_calls_duration_bucket{le=\"0.25\",function=\"checkout\",module=\"orders\"}[1h]))) / sum(rate(function_calls_duration_bucket{function=\"checkout\",module=\"orders\"}[1h]))">>

(***************************************************************************)
(* The series a document records and the selectors that read them.         *)
(***************************************************************************)
HasLabel(rule, key) ==
    \E i \in 1..Len(rule.labels) : StartsWith(rule.labels[i], key \o ": ")

LabelValue(rule, key) ==
    LET i == CHOOSE i \in 1..Len(rule.labels) :
                 StartsWith(rule.labels[i], key \o ": ")
    IN  StripPrefix(rule.labels[i], key \o ": ")

\* The series a recording rule records: its name and its function, module
\* and objective labels.
Series(rule) ==
    [name |-> rule.name,
     function |-> LabelValue(rule, "function"),
     module |-> LabelValue(rule, "module"),
     objective |-> LabelValue(rule, "objective")]

\* The series recorded by the k-th objective's recording rules.
Recorded(groups, k) ==
    {Series(SliGroup(groups, k).rules[j]) :
        j \in 1..Len(SliGroup(groups, k).rules)}
    \cup {Series(MetaGroup(groups, k).rules[j]) :
            j \in 1..Len(MetaGroup(groups, k).rules)}

\* The selector whose matchers are exactly a series' labels.
SelectorOf(series) ==
    series.name \o "{function=\"" \o series.function \o "\",module=\""
        \o series.module \o "\",objective=\"" \o series.objective \o "\"}"

\* The selectors of the recorded series of a given name.
Selecting(recorded, name) ==
    {SelectorOf(d) : d \in {x \in recorded : x.name = name}}

\* The lines of an alert rule's expression that compare a series.
ComparingLines(rule) ==
    {rule.expr[i] : i \in {j \in 1..Len(rule.expr) :
                              StartsWith(rule.expr[j], "        max(")}}

\* The ratio series an alert rule's comparisons read among the recorded
\* ones: a comparison line is max({selector} > ({factor} * {e})).
ComparedSeries(rule, recorded, e) ==
    {d \in recorded :
        \E line \in ComparingLines(rule) : \E factor \in Factors :
            line = "        max(" \o SelectorOf(d) \o " > (" \o factor
                       \o " * " \o e \o "))"}

AllLabelled(group) ==
    \A j \in 1..Len(group.rules) :
        /\ group.rules[j].kind = "record"
        /\ HasLabel(group.rules[j], "function")
        /\ HasLabel(group.rules[j], "module")
        /\ HasLabel(group.rules[j], "objective")

RatioNames == {"slo:sli_error:ratio_rate" \o w : w \in RatioWindows}

(***************************************************************************)
(* C10: reference closure within one objective.  Every series the          *)
(* objective's 30d rule, meta rules and alert rules read                   *)
(* (slo:sli_error:ratio_rate for 5m, 30m, 1h, 2h, 6h, 1d, 3d and 30d,      *)
(* slo:error_budget:ratio, slo:period_burn_rate:ratio) is recorded by a    *)
(* rule of the same objective, and the function, module and objective      *)
(* matchers of the selector that reads it equal the labels of the rule     *)
(* that records it.  Hence no rule of one objective selects a series       *)
(* recorded for a different objective (another function, or the other      *)
(* slo_type of the same function).                                         *)
(***************************************************************************)
C10_ReferenceClosure ==
    Called =>
        LET groups == Groups
            asked == Asked(METRICS)
            objectives == Derived(METRICS)
        IN  /\ Aligned(groups, asked, objectives)
            /\ \A k \in 1..Len(asked) :
                  /\ AllLabelled(SliGroup(groups, k))
                  /\ AllLabelled(MetaGroup(groups, k))
                  /\ Len(SliGroup(groups, k).rules) = 8
                  /\ Len(MetaGroup(groups, k).rules) = 6
                  /\ Len(AlertsGroup(groups, k).rules) = 2
            /\ \A k \in 1..Len(asked) :
                  LET recorded == Recorded(groups, k)
                      sli == SliGroup(groups, k)
                      meta == MetaGroup(groups, k)
                      alerts == AlertsGroup(groups, k)
                      e == "(1 - " \o AskedTarget(asked[k]) \o ")"
                      join == " / on(function, module, objective) group_left "
                      read == ComparedSeries(alerts.rules[1], recorded, e)
                                \cup ComparedSeries(alerts.rules[2],
                                                    recorded, e)
                  IN  \* the 30d rule reads this objective's ratio_rate5m
                      /\ Len(sli.rules[8].expr) = 4
                      /\ \E s5 \in Selecting(recorded,
                                             "slo:sli_error:ratio_rate5m") :
                            /\ sli.rules[8].expr[2] =
                                  "      sum_over_time(" \o s5 \o "[30d])"
                            /\ sli.rules[8].expr[4] =
                                  "      count_over_time(" \o s5 \o "[30d])"
                      \* the burn rates read this objective's ratios and
                      \* error budget
                      /\ \E s5 \in Selecting(recorded,
                                             "slo:sli_error:ratio_rate5m") :
                         \E sb \in Selecting(recorded,
                                             "slo:error_budget:ratio") :
                            meta.rules[4].expr =
                                <<"    expr: " \o s5 \o join \o sb>>
                      /\ \E s30 \in Selecting(recorded,
                                              "slo:sli_error:ratio_rate30d") :
                         \E sb \in Selecting(recorded,
                                             "slo:error_budget:ratio") :
                            meta.rules[5].expr =
                                <<"    expr: " \o s30 \o join \o sb>>
                      /\ \E sp \in Selecting(recorded,
                                             "slo:period_burn_rate:ratio") :
                            meta.rules[6].expr = <<"    expr: 1 - " \o sp>>
                      \* every comparison of the two alerts reads one of
                      \* this objective's ratios
                      /\ Cardinality(ComparingLines(alerts.rules[1])) = 4
                      /\ Cardinality(ComparingLines(alerts.rules[2])) = 4
                      /\ \A j \in 1..2 :
                            \A line \in ComparingLines(alerts.rules[j]) :
                               \E d \in recorded : \E factor \in Factors :
                                  /\ d.name \in RatioNames
                                  /\ line = "        max(" \o SelectorOf(d)
                                               \o " > (" \o factor \o " * "
                                               \o e \o "))"
                      /\ {d.name : d \in read} =
                            RatioNames \ {"slo:sli_error:ratio_rate30d"}
                      \* the recorded labels are the objective's own
                      /\ \A d \in recorded :
                            /\ d.function = asked[k].alert.function
                            /\ d.module = asked[k].alert.module
                            /\ d.objective = asked[k].slo
                      \* and are those of no different objective
                      /\ \A k2 \in 1..Len(asked) :
                            AskedId(asked[k2]) # AskedId(asked[k]) =>
                               {SelectorOf(d) : d \in recorded}
                                  \cap {SelectorOf(d) :
                                          d \in Recorded(groups, k2)} = {}

C10_Witness ==
    /\ Called
    /\ Len(METRICS) = 1
    /\ NSet(METRICS[1]) = 2
    /\ Len(Groups) = 6
    /\ Cardinality(Recorded(Groups, 1)) = 14
    /\ Cardinality(Recorded(Groups, 2)) = 14
    /\ Recorded(Groups, 1) \cap Recorded(Groups, 2) = {}
    /\ Cardinality(ComparedSeries(Groups[3].rules[1], Recorded(Groups, 1),
                                  "(1 - 0.995)")) = 4
    /\ ComparedSeries(Groups[3].rules[1], Recorded(Groups, 2),
                      "(1 - 0.995)") = {}

====
